---- MODULE Spec2Model ----
(***************************************************************************)
(* Trivia REST backend (backend/flaskr/__init__.py, decorators/paginate.py) *)
(* as a state machine: the state is the Question table, the id sequence of  *)
(* the store and the last request with its response; every HTTP request is  *)
(* one atomic action (section 5 of the spec: synchronous, one request at a  *)
(* time, autocommit).                                                       *)
(***************************************************************************)
EXTENDS Integers, Sequences, FiniteSets, TLC

VARIABLES rows, nextId, created, before, req, resp

vars == <<rows, nextId, created, before, req, resp>>

(* ---------------------------- bounds ----------------------------------- *)
MaxSeed == 11
MaxCreates == 1
MaxDeleteId == 3
MaxPage == 2
MaxItems == 21
MaxAbsPage == 4

(* ------------------------ program constants ---------------------------- *)
ITEMS_PER_PAGE == 10

(* ------------------------------ helpers -------------------------------- *)
Min(a, b) == IF a < b THEN a ELSE b
Max(a, b) == IF a < b THEN b ELSE a

(* Python list slice items[start:end] with step 1: negative indices count *)
(* from the end and both ends are clamped to 0..len                        *)
SliceIndex(i, n) == IF i < 0 THEN Max(i + n, 0) ELSE Min(i, n)
PySlice(items, start, end) ==
    LET lo == SliceIndex(start, Len(items))
        hi == SliceIndex(end, Len(items))
    IN IF lo < hi THEN SubSeq(items, lo + 1, hi) ELSE <<>>

(* ----------------------- data-access layer ----------------------------- *)
(* Category table: read-only seed data; id 1 is "Science"                  *)
Categories ==
    << [id |-> 1, type |-> "Science"], [id |-> 2, type |-> "Art"] >>

(* texts are sequences of characters *)
SeedTexts == << <<"a", "B">>, <<"b">>, <<"c", "_">> >>
SeedAnswer == <<"x">>

(* the i-th question of the seed data *)
SeedRow(i) ==
    [id |-> i,
     question |-> SeedTexts[((i - 1) % Len(SeedTexts)) + 1],
     answer |-> SeedAnswer,
     category |-> Categories[((i - 1) % Len(Categories)) + 1].id,
     difficulty |-> 1]

(* Question.format() / Category.format(): the JSON form of a row *)
Question_format(q) ==
    [id |-> q.id, question |-> q.question, answer |-> q.answer,
     category |-> q.category, difficulty |-> q.difficulty]
Category_format(c) == [id |-> c.id, type |-> c.type]

RECURSIVE InsertSorted(_, _)
InsertSorted(q, s) ==
    IF s = <<>> THEN <<q>>
    ELSE IF q.id <= Head(s).id THEN <<q>> \o s
         ELSE <<Head(s)>> \o InsertSorted(q, Tail(s))

RECURSIVE order_by_id(_)
(* query.order_by(<Model>.id).all() *)
order_by_id(s) ==
    IF s = <<>> THEN <<>> ELSE InsertSorted(Head(s), order_by_id(Tail(s)))

(* Question.query.filter(Question.id == question_id).one_or_none():        *)
(* the sequence of the rows found (empty for None)                          *)
filter_by_id(table, id) == SelectSeq(table, LAMBDA q : q.id = id)

(* Question.query.filter(Question.category == category_id).all() *)
filter_by_category(table, category_id) ==
    SelectSeq(table, LAMBDA q : q.category = category_id)

(* question.insert(): the store assigns the next id of its sequence *)
Question_insert(table, id, fields) ==
    Append(table, [id |-> id, question |-> fields.question,
                   answer |-> fields.answer, category |-> fields.category,
                   difficulty |-> fields.difficulty])

(* question.delete(): the row is removed *)
Question_delete(table, q) == SelectSeq(table, LAMBDA r : r # q)

(* ---------------- ilike: SQL LIKE on lower-cased operands -------------- *)
Lower(c) == CASE c = "A" -> "a" [] c = "B" -> "b" [] c = "C" -> "c" [] OTHER -> c

RECURSIVE LikeMatch(_, _)
(* SQL LIKE: % matches any run of characters, _ any one character *)
LikeMatch(p, s) ==
    IF p = <<>> THEN s = <<>>
    ELSE IF Head(p) = "%"
         THEN LikeMatch(Tail(p), s) \/ (s # <<>> /\ LikeMatch(p, Tail(s)))
    ELSE IF Head(p) = "_"
         THEN s # <<>> /\ LikeMatch(Tail(p), Tail(s))
    ELSE s # <<>> /\ Lower(Head(p)) = Lower(Head(s))
                  /\ LikeMatch(Tail(p), Tail(s))

(* Question.question.ilike(f'%{search_term}%') *)
ilike(text, search_term) == LikeMatch(<<"%">> \o search_term \o <<"%">>, text)

(* --------------------------- pagination -------------------------------- *)
(* request.args.get("page", 1, type=int) *)
args_get_page(args) == IF "page" \in DOMAIN args THEN args["page"] ELSE 1

(* faulty variant of paginate_items: the page number taken as 0-based *)
paginate_items_zero_based(args, selection) ==
    LET page == args_get_page(args)
        start == page * ITEMS_PER_PAGE
        end == start + ITEMS_PER_PAGE
        formatted_items ==
            [i \in 1..Len(selection) |-> Question_format(selection[i])]
    IN PySlice(formatted_items, start, end)

paginate_items(args, selection) ==
    LET page == args_get_page(args)
        start == (page - 1) * ITEMS_PER_PAGE
        end == start + ITEMS_PER_PAGE
        formatted_items ==
            [i \in 1..Len(selection) |-> Question_format(selection[i])]
    IN PySlice(formatted_items, start, end)

(* ----------------------------- responses ------------------------------- *)
(* a response: status, the kind of body and, for JSON, the keys it has     *)
EmptyResp ==
    [status |-> 200, kind |-> "json", keys |-> {}, success |-> FALSE,
     error |-> 0, message |-> "", questions |-> <<>>, total_questions |-> 0,
     categories |-> <<>>, created |-> 0, deleted |-> 0,
     current_category |-> "", question |-> <<>>]

not_found ==
    [EmptyResp EXCEPT !.status = 404, !.keys = {"success", "error", "message"},
                      !.error = 404, !.message = "resource not found"]
unprocessable ==
    [EmptyResp EXCEPT !.status = 422, !.keys = {"success", "error", "message"},
                      !.error = 422, !.message = "unprocessable"]
bad_request ==
    [EmptyResp EXCEPT !.status = 400, !.keys = {"success", "error", "message"},
                      !.error = 400, !.message = "bad request"]

(* no handler is registered for other codes: the framework's HTML page *)
default_error(code) == [EmptyResp EXCEPT !.status = code, !.kind = "html"]

(* what a view does: it returns a response or raises; raised is 0, the     *)
(* status of an HTTPException (abort) or 500 for any other exception       *)
Return(r, table, nid) == [raised |-> 0, resp |-> r, rows |-> table, nextId |-> nid]
Raise(code, table, nid) ==
    [raised |-> code, resp |-> EmptyResp, rows |-> table, nextId |-> nid]

(* the registered error handlers *)
handle_exception(code) ==
    CASE code = 404 -> not_found
      [] code = 422 -> unprocessable
      [] code = 400 -> bad_request
      [] OTHER -> default_error(code)

(* ------------------------------- views --------------------------------- *)
get_categories(table, nid) ==
    LET categories == order_by_id(Categories)
        formatted_categories ==
            [i \in 1..Len(categories) |-> Category_format(categories[i])]
    IN Return([EmptyResp EXCEPT !.keys = {"success", "categories"},
                                !.success = TRUE,
                                !.categories = formatted_categories],
              table, nid)

get_questions(args, table, nid) ==
    LET questions == order_by_id(table)
        current_questions == paginate_items(args, questions)
        categories == order_by_id(Categories)
        formatted_categories ==
            [i \in 1..Len(categories) |-> Category_format(categories[i])]
    IN Return([EmptyResp EXCEPT
                  !.keys = {"success", "questions", "total_questions",
                            "categories"},
                  !.success = TRUE,
                  !.questions = current_questions,
                  !.total_questions = Len(questions),
                  !.categories = formatted_categories],
              table, nid)

(* faulty variant of delete_question_try: question.delete() left out *)
delete_question_try_no_delete(question_id, table, nid) ==
    LET found == filter_by_id(table, question_id)
    IN IF Len(found) > 1 THEN Raise(500, table, nid)
       ELSE IF found = <<>> THEN Raise(404, table, nid)
       ELSE Return([EmptyResp EXCEPT !.keys = {"success", "deleted"},
                                     !.success = TRUE,
                                     !.deleted = question_id],
                   table, nid)

(* the body of the try block of delete_question *)
delete_question_try(question_id, table, nid) ==
    LET found == filter_by_id(table, question_id)
    IN IF Len(found) > 1 THEN Raise(500, table, nid)
       ELSE IF found = <<>> THEN Raise(404, table, nid)
       ELSE Return([EmptyResp EXCEPT !.keys = {"success", "deleted"},
                                     !.success = TRUE,
                                     !.deleted = question_id],
                   Question_delete(table, found[1]), nid)

(* faulty variant of delete_question: no except clause around the body *)
delete_question_no_except(question_id, table, nid) ==
    delete_question_try(question_id, table, nid)

(* try: ... except: abort(422) *)
delete_question(question_id, table, nid) ==
    LET r == delete_question_try(question_id, table, nid)
    IN IF r.raised # 0 THEN Raise(422, r.rows, r.nextId) ELSE r

(* body.get(key) is None *)
IsNone(body, key) == key \notin DOMAIN body

(* faulty variant of create_question_try: question.insert() left out *)
create_question_try_no_insert(args, body, table, nid) ==
    IF ~IsNone(body, "search_term") /\ body["search_term"] # <<>>
    THEN Raise(404, table, nid)
    ELSE IF \/ IsNone(body, "question") \/ IsNone(body, "answer")
            \/ IsNone(body, "category") \/ IsNone(body, "difficulty")
         THEN Raise(422, table, nid)
         ELSE LET all_questions == order_by_id(table)
              IN Return([EmptyResp EXCEPT
                            !.keys = {"success", "questions", "total_questions",
                                      "created"},
                            !.success = TRUE,
                            !.questions = paginate_items(args, all_questions),
                            !.total_questions = Len(all_questions),
                            !.created = nid],
                        table, nid + 1)

(* faulty variant of create_question_try: difficulty left out of the check of the  *)
(* required fields (a missing difficulty is stored as 0)                   *)
create_question_try_difficulty_optional(args, body, table, nid) ==
    IF ~IsNone(body, "search_term") /\ body["search_term"] # <<>>
    THEN Raise(404, table, nid)
    ELSE IF \/ IsNone(body, "question") \/ IsNone(body, "answer")
            \/ IsNone(body, "category")
         THEN Raise(422, table, nid)
         ELSE LET inserted ==
                      Append(table,
                             [id |-> nid, question |-> body["question"],
                              answer |-> body["answer"],
                              category |-> body["category"],
                              difficulty |-> IF IsNone(body, "difficulty")
                                             THEN 0 ELSE body["difficulty"]])
                  all_questions == order_by_id(inserted)
              IN Return([EmptyResp EXCEPT
                            !.keys = {"success", "questions", "total_questions",
                                      "created"},
                            !.success = TRUE,
                            !.questions = paginate_items(args, all_questions),
                            !.total_questions = Len(all_questions),
                            !.created = nid],
                        inserted, nid + 1)

(* the body of the try block of create_question *)
create_question_try(args, body, table, nid) ==
    IF ~IsNone(body, "search_term") /\ body["search_term"] # <<>>
    THEN LET search_term == body["search_term"]
             filtered_questions ==
                 SelectSeq(table, LAMBDA q : ilike(q.question, search_term))
         IN IF Len(filtered_questions) = 0 THEN Raise(404, table, nid)
            ELSE Return([EmptyResp EXCEPT
                            !.keys = {"success", "questions", "total_questions"},
                            !.success = TRUE,
                            !.questions = paginate_items(args, filtered_questions),
                            !.total_questions = Len(filtered_questions)],
                        table, nid)
    ELSE IF \/ IsNone(body, "question") \/ IsNone(body, "answer")
            \/ IsNone(body, "category") \/ IsNone(body, "difficulty")
         THEN Raise(422, table, nid)
         ELSE LET inserted == Question_insert(table, nid, body)
                  all_questions == order_by_id(inserted)
              IN Return([EmptyResp EXCEPT
                            !.keys = {"success", "questions", "total_questions",
                                      "created"},
                            !.success = TRUE,
                            !.questions = paginate_items(args, all_questions),
                            !.total_questions = Len(all_questions),
                            !.created = nid],
                        inserted, nid + 1)

(* try: ... except: abort(422) *)
create_question(args, body, table, nid) ==
    LET r == create_question_try(args, body, table, nid)
    IN IF r.raised # 0 THEN Raise(422, r.rows, r.nextId) ELSE r

get_questions_by_category(args, category_id, table, nid) ==
    LET selected_category ==
            SelectSeq(Categories, LAMBDA c : c.id = category_id)
        categorized_questions == filter_by_category(table, category_id)
    IN IF selected_category = <<>> THEN Raise(404, table, nid)
       ELSE Return([EmptyResp EXCEPT
                       !.keys = {"success", "questions", "total_questions",
                                 "current_category"},
                       !.success = TRUE,
                       !.questions = paginate_items(args, categorized_questions),
                       !.total_questions = Len(categorized_questions),
                       !.current_category = selected_category[1].type],
                   table, nid)

(* the body of the try block of get_random_questions; quiz_category and    *)
(* previous_qns are the view's parameters, which only URL variables        *)
(* (strings) could bind                                                    *)
get_random_questions_try(quiz_category, previous_qns, body, table, nid) ==
    IF IsNone(body, quiz_category) \/ IsNone(body, previous_qns)
    THEN Raise(400, table, nid)
    ELSE LET category == body[quiz_category]
             questions == IF category.id = 0 THEN order_by_id(table)
                          ELSE filter_by_category(table, category.id)
         IN IF questions = <<>>
            THEN Raise(500, table, nid)  \* random.randint(0, -1): ValueError
            ELSE Raise(500, table, nid)  \* <int> not in <str>: TypeError

(* try: ... except: abort(422) *)
get_random_questions(quiz_category, previous_qns, body, table, nid) ==
    LET r == get_random_questions_try(quiz_category, previous_qns, body,
                                      table, nid)
    IN IF r.raised # 0 THEN Raise(422, r.rows, r.nextId) ELSE r

(* ------------------------------ routing -------------------------------- *)
QuestionRule == "/questions/<int:question_id>"
CategoryQuestionsRule == "/categories/<int:category_id>/questions"

(* the rules the @app.route decorators register: method, rule, endpoint.   *)
(* app.route(...) on line 172 is called but not applied to a function, so  *)
(* it registers nothing                                                    *)
url_map ==
    { <<"GET", "/categories", "get_categories">>,
      <<"GET", "/questions", "get_questions">>,
      <<"DELETE", QuestionRule, "delete_question">>,
      <<"POST", "/questions", "create_question">>,
      <<"POST", "/quizzes", "get_random_questions">> }

(* the parameters each view function declares *)
Parameters(endpoint) ==
    CASE endpoint = "delete_question" -> {"question_id"}
      [] endpoint = "get_questions_by_category" -> {"category_id"}
      [] endpoint = "get_random_questions" -> {"quiz_category", "previous_qns"}
      [] OTHER -> {}

(* the framework's dispatch: no matching rule is NotFound (404); the view  *)
(* is called with the URL variables as keyword arguments, and a call whose *)
(* arguments do not fit the view's parameters is a TypeError (500)         *)
dispatch_request(method, rule, endpoint, view_args, table, nid, outcome) ==
    IF <<method, rule, endpoint>> \notin url_map THEN Raise(404, table, nid)
    ELSE IF DOMAIN view_args # Parameters(endpoint) THEN Raise(500, table, nid)
    ELSE outcome

(* the response sent: the view's, or the error handler's for what it raised *)
finalize_request(o) == IF o.raised = 0 THEN o.resp ELSE handle_exception(o.raised)

(* ------------------------------ inputs --------------------------------- *)
NoArgs == [k \in {} |-> 0]
(* the query string: no page parameter, or ?page=p *)
PageArgs == {NoArgs} \cup {[page |-> p] : p \in 0..MaxPage}
(* the query strings tried on POST /questions: none and the last page *)
PostArgs == {NoArgs, [page |-> MaxPage]}

SearchTerms == { <<"A">>, <<"b">>, <<"z">>, <<"_">>, <<"a", "b">> }
NewText == <<"z", "B">>
CreateKeys == {"question", "answer", "category", "difficulty"}

MkBody(ks, st) ==
    [k \in ks |-> CASE k = "search_term" -> st
                    [] k = "question" -> NewText
                    [] k = "answer" -> SeedAnswer
                    [] k = "category" -> 1
                    [] k = "difficulty" -> 5]

(* JSON bodies of POST /questions: a search term alone, a search term with *)
(* the four fields, every subset of the four fields, and the empty and the *)
(* full body with an empty search term                                     *)
QuestionBodies ==
    {MkBody({"search_term"}, st) : st \in SearchTerms}
    \cup {MkBody(CreateKeys \cup {"search_term"}, <<"A">>)}
    \cup {MkBody(ks, <<>>) : ks \in SUBSET CreateKeys}
    \cup {MkBody(ks \cup {"search_term"}, <<>>) : ks \in {{}, CreateKeys}}

QuizCategories ==
    {[id |-> 0, type |-> "click"]} \cup
    {[id |-> Categories[i].id, type |-> Categories[i].type] :
        i \in 1..Len(Categories)}
PreviousQuestions == { <<>>, <<1>>, <<1, 2>> }
QuizBodies ==
    {NoArgs} \cup
    {[previous_questions |-> pq, quiz_category |-> qc] :
        pq \in PreviousQuestions, qc \in QuizCategories}

(* -------------------------- the state machine -------------------------- *)
NoReq == [method |-> "", rule |-> "", view_args |-> NoArgs, args |-> NoArgs,
          body |-> NoArgs]

Init ==
    /\ \E n \in 0..MaxSeed :
          /\ rows = [i \in 1..n |-> SeedRow(i)]
          /\ nextId = n + 1
    /\ created = 0
    /\ before = rows
    /\ req = NoReq
    /\ resp = [EmptyResp EXCEPT !.status = 0, !.kind = "none"]

(* the model stops creating questions after MaxCreates of them *)
Bounded(o) == (o.nextId # nextId) => created < MaxCreates

(* one request, served to completion *)
Serve(method, rule, view_args, args, body, o) ==
    /\ req' = [method |-> method, rule |-> rule, view_args |-> view_args,
               args |-> args, body |-> body]
    /\ resp' = finalize_request(o)
    /\ before' = rows
    /\ rows' = o.rows
    /\ nextId' = o.nextId
    /\ created' = created + (o.nextId - nextId)

GetCategories ==
    LET o == dispatch_request("GET", "/categories", "get_categories", NoArgs,
                              rows, nextId, get_categories(rows, nextId))
    IN /\ Bounded(o)
       /\ Serve("GET", "/categories", NoArgs, NoArgs, NoArgs, o)

GetQuestions ==
    \E args \in PageArgs :
        LET o == dispatch_request("GET", "/questions", "get_questions", NoArgs,
                                  rows, nextId,
                                  get_questions(args, rows, nextId))
        IN /\ Bounded(o)
           /\ Serve("GET", "/questions", NoArgs, args, NoArgs, o)

DeleteQuestion ==
    \E question_id \in 0..MaxDeleteId :
        LET view_args == [question_id |-> question_id]
            o == dispatch_request("DELETE", QuestionRule, "delete_question",
                                  view_args, rows, nextId,
                                  delete_question(view_args["question_id"],
                                                  rows, nextId))
        IN /\ Bounded(o)
           /\ Serve("DELETE", QuestionRule, view_args, NoArgs, NoArgs, o)

PostQuestions ==
    \E args \in PostArgs, body \in QuestionBodies :
        LET o == dispatch_request("POST", "/questions", "create_question",
                                  NoArgs, rows, nextId,
                                  create_question(args, body, rows, nextId))
        IN /\ Bounded(o)
           /\ Serve("POST", "/questions", NoArgs, args, body, o)

GetQuestionsByCategory ==
    \E args \in PageArgs, category_id \in 1..(Len(Categories) + 1) :
        LET view_args == [category_id |-> category_id]
            o == dispatch_request("GET", CategoryQuestionsRule,
                                  "get_questions_by_category", view_args,
                                  rows, nextId,
                                  get_questions_by_category(
                                      args, view_args["category_id"],
                                      rows, nextId))
        IN /\ Bounded(o)
           /\ Serve("GET", CategoryQuestionsRule, view_args, args, NoArgs, o)

PostQuizzes ==
    \E body \in QuizBodies :
        LET o == dispatch_request("POST", "/quizzes", "get_random_questions",
                                  NoArgs, rows, nextId,
                                  get_random_questions(
                                      NoArgs["quiz_category"],
                                      NoArgs["previous_qns"],
                                      body, rows, nextId))
        IN /\ Bounded(o)
           /\ Serve("POST", "/quizzes", NoArgs, NoArgs, body, o)

Next ==
    \/ GetCategories
    \/ GetQuestions
    \/ DeleteQuestion
    \/ PostQuestions
    \/ GetQuestionsByCategory
    \/ PostQuizzes

Spec == Init /\ [][Next]_vars

(* ======================= properties of the API ========================= *)
IsRequest(method, rule) == req.method = method /\ req.rule = rule
RequestedPage == IF "page" \in DOMAIN req.args THEN req.args["page"] ELSE 1
Ids(table) == {table[i].id : i \in 1..Len(table)}
Range(s) == {s[i] : i \in 1..Len(s)}
Ok200 == resp.status = 200 /\ resp.kind = "json" /\ resp.success = TRUE
(* the number of questions of the table that come before id in id order *)
Rank(table, id) == Cardinality({i \in 1..Len(table) : table[i].id < id})
(* the JSON form of the questions of a table *)
Formatted(table) ==
    {[id |-> table[i].id, question |-> table[i].question,
      answer |-> table[i].answer, category |-> table[i].category,
      difficulty |-> table[i].difficulty] : i \in 1..Len(table)}

(* C1: GET /questions?page=N with N >= 1 (no page parameter: N = 1)        *)
(* answers 200 with at most 10 questions, the k-th of them being the       *)
(* question at position (N-1)*10 + k - 1 of all questions in id order, as  *)
(* many as that list has from position (N-1)*10 on; page 1 has exactly     *)
(* min(10, total) questions, and total_questions is the number of          *)
(* questions in the store.                                                 *)
C1_PageOfQuestions ==
    (IsRequest("GET", "/questions") /\ RequestedPage >= 1) =>
        LET N == RequestedPage
            total == Len(before)
            rest == total - (N - 1) * 10
            expected == IF rest < 0 THEN 0 ELSE IF rest > 10 THEN 10 ELSE rest
        IN /\ Ok200
           /\ Len(resp.questions) <= 10
           /\ Len(resp.questions) = expected
           /\ (N = 1 => Len(resp.questions) = Min(10, total))
           /\ \A k \in 1..Len(resp.questions) :
                 /\ resp.questions[k] \in Formatted(before)
                 /\ Rank(before, resp.questions[k].id) = (N - 1) * 10 + k - 1
           /\ resp.total_questions = total
           /\ rows = before

(* C1 witness: the second page of a store of more than 10 questions *)
C1_Witness ==
    /\ IsRequest("GET", "/questions")
    /\ RequestedPage = 2
    /\ Len(before) > 10
    /\ Len(resp.questions) >= 1
    /\ resp.questions[1].id = before[11].id

(* C2: GET /questions?page=N whose page is empty (N is beyond the last     *)
(* page) answers 404, success false, "resource not found".                 *)
C2_EmptyPageIs404 ==
    (/\ IsRequest("GET", "/questions")
     /\ RequestedPage >= 1
     /\ (RequestedPage - 1) * 10 >= Len(before)) =>
        /\ resp.status = 404
        /\ resp.success = FALSE
        /\ resp.message = "resource not found"

(* C3: DELETE /questions/q of a question q in the store answers 200,       *)
(* success true, deleted = q; there is one question less than before, no   *)
(* question has id q, and all other questions are there unchanged.         *)
C3_DeleteExisting ==
    (IsRequest("DELETE", QuestionRule)
     /\ req.view_args["question_id"] \in Ids(before)) =>
        LET q == req.view_args["question_id"]
        IN /\ Ok200
           /\ "deleted" \in resp.keys
           /\ resp.deleted = q
           /\ Len(rows) = Len(before) - 1
           /\ q \notin Ids(rows)
           /\ Range(rows) = {r \in Range(before) : r.id # q}

(* C3 witness: a question was deleted from a store of several *)
C3_Witness ==
    /\ IsRequest("DELETE", QuestionRule)
    /\ req.view_args["question_id"] \in Ids(before)
    /\ Len(before) >= 2
    /\ resp.status = 200
    /\ Len(rows) >= 1

(* C4: DELETE /questions/q of an id q that no question has answers 422,    *)
(* success false, and the store is as it was before the request.           *)
C4_DeleteMissing ==
    (IsRequest("DELETE", QuestionRule)
     /\ req.view_args["question_id"] \notin Ids(before)) =>
        /\ resp.status = 422
        /\ resp.kind = "json"
        /\ resp.success = FALSE
        /\ rows = before

(* C4 witness: a missing id was asked of a store that has questions *)
C4_Witness ==
    /\ IsRequest("DELETE", QuestionRule)
    /\ req.view_args["question_id"] \notin Ids(before)
    /\ Len(before) >= 1
    /\ resp.status = 422

(* C5: POST /questions with no search_term and all of question, answer,    *)
(* category, difficulty answers 200, success true and a created id; there  *)
(* is one question more than before, the created id is new, and the        *)
(* question of that id carries the four submitted values.                  *)
C5_CreateQuestion ==
    (/\ IsRequest("POST", "/questions")
     /\ "search_term" \notin DOMAIN req.body
     /\ CreateKeys \subseteq DOMAIN req.body) =>
        /\ Ok200
        /\ "created" \in resp.keys
        /\ Len(rows) = Len(before) + 1
        /\ resp.created \notin Ids(before)
        /\ Cardinality({i \in 1..Len(rows) : rows[i].id = resp.created}) = 1
        /\ \A i \in 1..Len(rows) :
              rows[i].id = resp.created =>
                 /\ rows[i].question = req.body["question"]
                 /\ rows[i].answer = req.body["answer"]
                 /\ rows[i].category = req.body["category"]
                 /\ rows[i].difficulty = req.body["difficulty"]
        /\ Range(before) \subseteq Range(rows)

(* C5 witness: a question was created in a store that had questions *)
C5_Witness ==
    /\ IsRequest("POST", "/questions")
    /\ "search_term" \notin DOMAIN req.body
    /\ CreateKeys \subseteq DOMAIN req.body
    /\ Len(before) >= 1
    /\ resp.status = 200
    /\ resp.created \in Ids(rows)

(* C6: POST /questions with no non-empty search_term and without at least  *)
(* one of question, answer, category, difficulty (the empty body too)      *)
(* answers 422, success false, and the store is as it was before.          *)
C6_CreateIncomplete ==
    (/\ IsRequest("POST", "/questions")
     /\ ("search_term" \in DOMAIN req.body => req.body["search_term"] = <<>>)
     /\ ~(CreateKeys \subseteq DOMAIN req.body)) =>
        /\ resp.status = 422
        /\ resp.kind = "json"
        /\ resp.success = FALSE
        /\ rows = before

(* C6 witness: a body that lacks only the difficulty was refused *)
C6_Witness ==
    /\ IsRequest("POST", "/questions")
    /\ DOMAIN req.body = CreateKeys \ {"difficulty"}
    /\ Len(before) >= 1
    /\ resp.status = 422

(* term occurs in text, letter case ignored *)
Contains(text, term) ==
    \E i \in 0..(Len(text) - Len(term)) :
        \A j \in 1..Len(term) : Lower(text[i + j]) = Lower(term[j])
(* the questions of a table whose text contains the term *)
Matching(table, term) ==
    {i \in 1..Len(table) : Contains(table[i].question, term)}
HasSearchTerm ==
    "search_term" \in DOMAIN req.body /\ req.body["search_term"] # <<>>

(* C7: POST /questions with a non-empty search_term that some question's   *)
(* text contains answers 200, success true, total_questions = the number   *)
(* of questions whose text contains the term (case ignored) and a list of  *)
(* at most 10 questions that all contain it; on page 1 a term that exactly *)
(* one question contains returns exactly that question; the store is       *)
(* unchanged.                                                              *)
C7_SearchBySubstring ==
    (/\ IsRequest("POST", "/questions")
     /\ HasSearchTerm
     /\ Matching(before, req.body["search_term"]) # {}) =>
        LET term == req.body["search_term"]
            hits == Matching(before, term)
        IN /\ Ok200
           /\ resp.total_questions = Cardinality(hits)
           /\ Len(resp.questions) <= 10
           /\ \A k \in 1..Len(resp.questions) :
                 /\ resp.questions[k] \in Formatted(before)
                 /\ Contains(resp.questions[k].question, term)
           /\ (Cardinality(hits) = 1 /\ RequestedPage = 1) =>
                 /\ Len(resp.questions) = 1
                 /\ \A i \in hits : resp.questions[1].id = before[i].id
           /\ rows = before

(* C8: POST /questions with a non-empty search_term that no question's     *)
(* text contains answers 422, success false, "unprocessable", with no      *)
(* questions, and creates no question.                                     *)
C8_SearchWithoutMatch ==
    (/\ IsRequest("POST", "/questions")
     /\ HasSearchTerm
     /\ Matching(before, req.body["search_term"]) = {}) =>
        /\ resp.status = 422
        /\ resp.success = FALSE
        /\ resp.message = "unprocessable"
        /\ resp.questions = <<>>
        /\ rows = before

(* C9: GET /categories/c/questions for a category c of the store answers   *)
(* 200, success true, current_category = the type of c, total_questions =  *)
(* the number of questions of category c, and only questions of category   *)
(* c (at least one on page 1 when the category has a question).            *)
C9_QuestionsOfCategory ==
    (/\ IsRequest("GET", CategoryQuestionsRule)
     /\ \E i \in 1..Len(Categories) :
           Categories[i].id = req.view_args["category_id"]) =>
        LET c == req.view_args["category_id"]
            ofC == {i \in 1..Len(before) : before[i].category = c}
        IN /\ Ok200
           /\ \A i \in 1..Len(Categories) :
                 Categories[i].id = c => resp.current_category = Categories[i].type
           /\ resp.total_questions = Cardinality(ofC)
           /\ \A k \in 1..Len(resp.questions) : resp.questions[k].category = c
           /\ (RequestedPage = 1 /\ ofC # {}) => resp.questions # <<>>

(* C10: POST /quizzes with previous_questions and quiz_category such that  *)
(* a question of the requested category (any category for id 0) is not in  *)
(* previous_questions answers 200, success true and a question whose id is *)
(* not in previous_questions and whose category is the requested one when  *)
(* the requested id is not 0.                                              *)
C10_QuizNextQuestion ==
    (/\ IsRequest("POST", "/quizzes")
     /\ {"previous_questions", "quiz_category"} \subseteq DOMAIN req.body
     /\ \E i \in 1..Len(before) :
           /\ before[i].id \notin Range(req.body["previous_questions"])
           /\ req.body["quiz_category"].id \in {0, before[i].category}) =>
        /\ Ok200
        /\ "question" \in resp.keys
        /\ resp.question.id \notin Range(req.body["previous_questions"])
        /\ req.body["quiz_category"].id # 0 =>
              resp.question.category = req.body["quiz_category"].id

(* C11: POST /quizzes with a JSON body without previous_questions and      *)
(* quiz_category (the empty body {} for one) answers 422, success false,   *)
(* "unprocessable", whatever the store holds.                              *)
C11_QuizWithoutFields ==
    (/\ IsRequest("POST", "/quizzes")
     /\ DOMAIN req.body \cap {"previous_questions", "quiz_category"} = {}) =>
        /\ resp.status = 422
        /\ resp.kind = "json"
        /\ resp.success = FALSE
        /\ resp.message = "unprocessable"

(* ------------- paginate_items on its own, any integer page ------------- *)
(* the helper called with ?page=p, p possibly 0 or negative, on a list of  *)
(* 0..MaxItems items                                                       *)
InitPaginate ==
    /\ \E n \in 0..MaxItems :
          /\ rows = [i \in 1..n |-> SeedRow(i)]
          /\ nextId = n + 1
    /\ created = 0
    /\ before = rows
    /\ req = NoReq
    /\ resp = [EmptyResp EXCEPT !.status = 0, !.kind = "none"]

PaginateItems ==
    \E page \in (0 - MaxAbsPage)..MaxAbsPage :
        LET args == [page |-> page]
        IN /\ req' = [method |-> "CALL", rule |-> "paginate_items",
                      view_args |-> NoArgs, args |-> args, body |-> NoArgs]
           /\ resp' = [EmptyResp EXCEPT !.status = 0, !.kind = "none",
                                        !.questions = paginate_items(args, rows)]
           /\ before' = rows
           /\ UNCHANGED <<rows, nextId, created>>

NextPaginate == PaginateItems

SpecPaginate == InitPaginate /\ [][NextPaginate]_vars

(* the number of pages of a list of n items: ceil(n / 10) *)
LastPage(n) == (n + 9) \div 10

(* C12: for a list of n items and an integer page outside 1..ceil(n/10)    *)
(* (0, a negative number or a number past the last page) paginate_items    *)
(* returns the empty list.                                                 *)
C12_OutOfRangePageIsEmpty ==
    (/\ IsRequest("CALL", "paginate_items")
     /\ RequestedPage \notin 1..LastPage(Len(before))) =>
        resp.questions = <<>>

====
